---------------------------- MODULE Spec2Model ----------------------------
(***************************************************************************)
(* funtime-config: FuntimeConfigLoader (register, load, loadEnvFile,       *)
(* parseEnvValue) as a state machine.  Text is modelled as sequences of    *)
(* one-character strings so that toLowerCase, trim, split and replace are  *)
(* computed, not assumed.                                                  *)
(***************************************************************************)
EXTENDS Integers, Sequences, FiniteSets, TLC

(***************************************************************************)
(* Text helpers (JavaScript String methods used by the loader).            *)
(***************************************************************************)
UpperChars == <<"A","B","C","D","E","F","G","H","I","J","K","L","M",
                "N","O","P","Q","R","S","T","U","V","W","X","Y","Z">>

LowerChars == <<"a","b","c","d","e","f","g","h","i","j","k","l","m",
                "n","o","p","q","r","s","t","u","v","w","x","y","z">>

DigitChars == <<"0","1","2","3","4","5","6","7","8","9">>

\* String.prototype.toLowerCase on one character
ToLowerChar(c) ==
  IF \E i \in DOMAIN UpperChars : UpperChars[i] = c
    THEN LowerChars[CHOOSE i \in DOMAIN UpperChars : UpperChars[i] = c]
    ELSE c

\* String.prototype.toLowerCase
ToLowerCase(s) == [i \in DOMAIN s |-> ToLowerChar(s[i])]

IsSpace(c) == c \in {" ", "\t", "\r", "\n"}

RECURSIVE TrimStart(_)
TrimStart(s) ==
  IF s # <<>> /\ IsSpace(Head(s)) THEN TrimStart(Tail(s)) ELSE s

RECURSIVE TrimEnd(_)
TrimEnd(s) ==
  IF s # <<>> /\ IsSpace(s[Len(s)]) THEN TrimEnd(SubSeq(s, 1, Len(s) - 1)) ELSE s

\* String.prototype.trim
Trim(s) == TrimEnd(TrimStart(s))

\* String.prototype.startsWith / endsWith
StartsWith(s, p) == Len(s) >= Len(p) /\ SubSeq(s, 1, Len(p)) = p

EndsWith(s, p) == Len(s) >= Len(p) /\ SubSeq(s, Len(s) - Len(p) + 1, Len(s)) = p

\* String.prototype.split(sep) for a one-character separator
RECURSIVE SplitAcc(_, _, _)
SplitAcc(s, sep, cur) ==
  IF s = <<>> THEN <<cur>>
  ELSE IF Head(s) = sep THEN <<cur>> \o SplitAcc(Tail(s), sep, <<>>)
  ELSE SplitAcc(Tail(s), sep, Append(cur, Head(s)))

Split(s, sep) == SplitAcc(s, sep, <<>>)

\* Array.prototype.join(sep) for a one-character separator
RECURSIVE Join(_, _)
Join(parts, sep) ==
  IF parts = <<>> THEN <<>>
  ELSE IF Len(parts) = 1 THEN parts[1]
  ELSE parts[1] \o <<sep>> \o Join(Tail(parts), sep)

(***************************************************************************)
(* Configuration values (type ConfigValue).  Every value is a record of    *)
(* the same shape: t the JavaScript type, n a number payload, s a text     *)
(* payload, o the object an arrow function's `this` is bound to.           *)
(***************************************************************************)
Undefined == [t |-> "undefined", n |-> 0, s |-> <<>>, o |-> ""]
Null      == [t |-> "null", n |-> 0, s |-> <<>>, o |-> ""]
Bool(b)   == [t |-> "boolean", n |-> IF b THEN 1 ELSE 0, s |-> <<>>, o |-> ""]
Num(n)    == [t |-> "number", n |-> n, s |-> <<>>, o |-> ""]
\* the numbers Infinity (sign 1) and -Infinity (sign -1)
Inf(sign) == [t |-> "infinity", n |-> sign, s |-> <<>>, o |-> ""]
Str(s)    == [t |-> "string", n |-> 0, s |-> s, o |-> ""]
\* a parsed JSON object or array, held as its text without white space
Obj(s)    == [t |-> "object", n |-> 0, s |-> s, o |-> ""]
Arr(s)    == [t |-> "array", n |-> 0, s |-> s, o |-> ""]
\* a function-valued property: resolver r, closed over the object `owner`
Fn(r, owner) == [t |-> "function", n |-> 0, s |-> <<r>>, o |-> owner]

\* export const FuntimeSecretProperty = Symbol('FuntimeSecretProperty')
FuntimeSecretProperty == [t |-> "symbol", n |-> 0, s |-> <<>>, o |-> ""]

(***************************************************************************)
(* Number(value): the numeric parser of parseEnvValue, for the texts of    *)
(* the model: white space, signed decimal integers, (+/-)Infinity, and     *)
(* texts that are no numeric literal at all (no fractions, exponents or    *)
(* 0x, 0o, 0b literals occur).                                             *)
(***************************************************************************)
IsDigit(c) == \E i \in DOMAIN DigitChars : DigitChars[i] = c

DigitVal(c) == (CHOOSE i \in DOMAIN DigitChars : DigitChars[i] = c) - 1

AllDigits(s) == s # <<>> /\ \A i \in DOMAIN s : IsDigit(s[i])

RECURSIVE DigitsVal(_, _)
DigitsVal(s, acc) ==
  IF s = <<>> THEN acc ELSE DigitsVal(Tail(s), 10 * acc + DigitVal(Head(s)))

InfinityText == <<"I","n","f","i","n","i","t","y">>

\* the text after an optional sign, and the sign
Unsigned(s) == IF s # <<>> /\ Head(s) \in {"+", "-"} THEN Tail(s) ELSE s

SignOf(s) == IF s # <<>> /\ Head(s) = "-" THEN -1 ELSE 1

\* isNaN(Number(value))
NumberIsNaN(value) ==
  LET t == Trim(value) IN
    ~ (t = <<>> \/ AllDigits(Unsigned(t)) \/ Unsigned(t) = InfinityText)

\* Number(value), where it is not NaN
NumberOf(value) ==
  LET t == Trim(value) IN
    IF t = <<>> THEN Num(0)
    ELSE IF Unsigned(t) = InfinityText THEN Inf(SignOf(t))
    ELSE Num(SignOf(t) * DigitsVal(Unsigned(t), 0))

(***************************************************************************)
(* JSON.parse(value).  Modelled for the literals null, true and false,     *)
(* strings without escapes, signed integers, and objects and arrays of one *)
(* level whose members are such scalars; anything else is a SyntaxError.   *)
(***************************************************************************)
RemoveSpaces(s) == SelectSeq(s, LAMBDA c : ~ IsSpace(c))

IsJsonString(t) ==
  /\ Len(t) >= 2
  /\ t[1] = "\"" /\ t[Len(t)] = "\""
  /\ \A i \in 2..(Len(t) - 1) : t[i] \notin {"\"", "\\", "\n", "\t", "\r"}

IsJsonInt(t) ==
  LET u == IF t # <<>> /\ Head(t) = "-" THEN Tail(t) ELSE t IN
    AllDigits(u) /\ (Len(u) = 1 \/ Head(u) # "0")

IsJsonScalar(t) ==
  \/ t \in { <<"n","u","l","l">>, <<"t","r","u","e">>, <<"f","a","l","s","e">> }
  \/ IsJsonString(t)
  \/ IsJsonInt(t)

\* members of an array body: scalars separated by commas
IsJsonElements(body) ==
  LET parts == Split(body, ",") IN
    \A i \in DOMAIN parts : IsJsonScalar(Trim(parts[i]))

\* one member of an object body: "key": scalar
IsJsonMember(m) ==
  LET kv == Split(m, ":") IN
    /\ Len(kv) = 2
    /\ IsJsonString(Trim(kv[1]))
    /\ IsJsonScalar(Trim(kv[2]))

IsJsonMembers(body) ==
  LET parts == Split(body, ",") IN
    \A i \in DOMAIN parts : IsJsonMember(Trim(parts[i]))

Inner(t) == SubSeq(t, 2, Len(t) - 1)

IsJsonArray(t) ==
  /\ Len(t) >= 2 /\ t[1] = "[" /\ t[Len(t)] = "]"
  /\ (Trim(Inner(t)) = <<>> \/ IsJsonElements(Inner(t)))

IsJsonObject(t) ==
  /\ Len(t) >= 2 /\ t[1] = "{" /\ t[Len(t)] = "}"
  /\ (Trim(Inner(t)) = <<>> \/ IsJsonMembers(Inner(t)))

\* JSON.parse(value) does not throw
JsonValid(value) ==
  LET t == Trim(value) IN IsJsonScalar(t) \/ IsJsonArray(t) \/ IsJsonObject(t)

\* JSON.parse(value), where it does not throw
JsonParse(value) ==
  LET t == Trim(value) IN
    IF t = <<"n","u","l","l">> THEN Null
    ELSE IF t = <<"t","r","u","e">> THEN Bool(TRUE)
    ELSE IF t = <<"f","a","l","s","e">> THEN Bool(FALSE)
    ELSE IF IsJsonString(t) THEN Str(Inner(t))
    ELSE IF IsJsonInt(t) THEN Num(SignOf(t) * DigitsVal(Unsigned(t), 0))
    ELSE IF IsJsonArray(t) THEN Arr(RemoveSpaces(t))
    ELSE Obj(RemoveSpaces(t))

(***************************************************************************)
(* FuntimeConfigLoader.parseEnvValue                                       *)
(***************************************************************************)
\* variant: the empty text is not excluded from the numbers
parseEnvValue_EmptyIsZero(value) ==
  IF ToLowerCase(value) = <<"t","r","u","e">> THEN Bool(TRUE)
  ELSE IF ToLowerCase(value) = <<"f","a","l","s","e">> THEN Bool(FALSE)
  ELSE IF ~ NumberIsNaN(value) THEN NumberOf(value)
  ELSE IF JsonValid(value) THEN JsonParse(value)
  ELSE Str(value)

parseEnvValue(value) ==
  IF ToLowerCase(value) = <<"t","r","u","e">> THEN Bool(TRUE)
  ELSE IF ToLowerCase(value) = <<"f","a","l","s","e">> THEN Bool(FALSE)
  ELSE IF ~ NumberIsNaN(value) /\ value # <<>> THEN NumberOf(value)
  ELSE IF JsonValid(value) THEN JsonParse(value)
  ELSE Str(value)

(***************************************************************************)
(* Objects: a JavaScript object is its own properties in property order,   *)
(* a sequence of [k, v].  (Integer-like keys, which JavaScript orders      *)
(* first, are not among the modelled keys.)                                *)
(***************************************************************************)
Has(obj, k) == \E i \in DOMAIN obj : obj[i].k = k

\* obj[k]
Get(obj, k) ==
  IF Has(obj, k) THEN obj[CHOOSE i \in DOMAIN obj : obj[i].k = k].v ELSE Undefined

\* obj[k] = v : an existing property keeps its place, a new one goes last
Put(obj, k, v) ==
  IF Has(obj, k)
    THEN [i \in DOMAIN obj |-> IF obj[i].k = k THEN [k |-> k, v |-> v] ELSE obj[i]]
    ELSE Append(obj, [k |-> k, v |-> v])

Keys(obj) == [i \in DOMAIN obj |-> obj[i].k]

(***************************************************************************)
(* Texts of the modelled world: variable and field names, class names,     *)
(* raw values.                                                             *)
(***************************************************************************)
NODE_ENV == <<"N","O","D","E","_","E","N","V">>
TEST_STR == <<"T","E","S","T","_","S","T","R">>
TEST_NUM == <<"T","E","S","T","_","N","U","M">>
TEST_BOOL == <<"T","E","S","T","_","B","O","O","L">>
TEST_RESOLVED == <<"T","E","S","T","_","R","E","S","O","L","V","E","D">>
TEST_SECRET == <<"T","E","S","T","_","S","E","C","R","E","T">>
TEST_APP_NAME == <<"T","E","S","T","_","A","P","P","_","N","A","M","E">>
TEST_COPY == <<"T","E","S","T","_","C","O","P","Y">>
TEST_AHEAD == <<"T","E","S","T","_","A","H","E","A","D">>
TEST_LATER == <<"T","E","S","T","_","L","A","T","E","R">>
TEST_STRING == <<"T","E","S","T","_","S","T","R","I","N","G">>
PATH == <<"P","A","T","H">>

(***************************************************************************)
(* The configuration classes of the modelled application, after the test   *)
(* suites' classes.  A field is [k, init, rule]: init is the initializer   *)
(* (Undefined for a declaration without one, `K!: T`), rule the            *)
(* class-validator decorator on it ("" for none).  A function initializer  *)
(* is an arrow function, closed over the object under construction.        *)
(***************************************************************************)
Field(k, init, rule) == [k |-> k, init |-> init, rule |-> rule]

Classes == {"BaseConfig", "TestConfig", "ProductionConfig", "LazyConfig",
            "LocalConfigA", "LocalConfigM", "NotAConfig"}

\* cfg.name
ClassName(c) ==
  CASE c = "BaseConfig" -> <<"B","a","s","e","C","o","n","f","i","g">>
    [] c = "TestConfig" -> <<"T","e","s","t","C","o","n","f","i","g">>
    [] c = "ProductionConfig" -> <<"P","r","o","d","u","c","t","i","o","n","C","o","n","f","i","g">>
    [] c = "LazyConfig" -> <<"L","a","z","y","C","o","n","f","i","g">>
    [] c = "LocalConfigA" -> <<"L","o","c","a","l","C","o","n","f","i","g">>
    [] c = "LocalConfigM" -> <<"L","o","c","a","l","C","o","n","f","i","g">>
    [] OTHER -> <<"N","o","t","A","C","o","n","f","i","g">>

\* the class a class extends ("" for none)
ClassBase(c) ==
  CASE c \in {"TestConfig", "ProductionConfig"} -> "BaseConfig"
    [] c = "NotAConfig" -> ""
    [] OTHER -> "FuntimeConfig"

\* the fields a class declares itself, in declaration order
ClassFields(c) ==
  CASE c = "BaseConfig" ->
         << Field(TEST_STR, Undefined, "isString"),
            Field(TEST_NUM, Num(42), "isNumber"),
            Field(TEST_BOOL, Undefined, "isBoolean"),
            Field(TEST_RESOLVED, Num(100), "isNumber") >>
    [] c = "TestConfig" ->
         << Field(TEST_STR, Str(<<"t","e","s","t">>), ""),
            Field(TEST_NUM, Num(69), ""),
            Field(TEST_RESOLVED, Fn("double_TEST_NUM", "this"), "") >>
    [] c = "ProductionConfig" ->
         << Field(TEST_STR, Str(<<"p","r","o","d">>), "isString"),
            Field(TEST_SECRET, FuntimeSecretProperty, "isString") >>
    [] c = "LazyConfig" ->
         << Field(TEST_APP_NAME, Fn("fetch_value", "this"), "isString"),
            Field(TEST_COPY, Fn("read_TEST_APP_NAME", "this"), "isString"),
            Field(TEST_AHEAD, Fn("read_TEST_LATER", "this"), "isObject"),
            Field(TEST_LATER, Fn("const_value", "this"), "isString") >>
    [] c \in {"LocalConfigA", "LocalConfigM"} ->
         << Field(TEST_STRING, Str(IF c = "LocalConfigM" THEN <<"l","o","c","a","l","_","s","t","r","i","n","g">> ELSE <<"r","e","g","i","s","t","e","r","e","d">>), "isString") >>
    [] OTHER -> << >>

\* c.prototype instanceof FuntimeConfig
RECURSIVE ExtendsFuntimeConfig(_)
ExtendsFuntimeConfig(c) ==
  /\ c \in Classes
  /\ (ClassBase(c) = "FuntimeConfig" \/ ExtendsFuntimeConfig(ClassBase(c)))

\* the inheritance chain of a class, root first
RECURSIVE Chain(_)
Chain(c) == IF c \in Classes THEN Append(Chain(ClassBase(c)), c) ELSE << >>

\* every field declaration of the chain, base classes first
RECURSIVE ChainFields(_)
ChainFields(cs) ==
  IF cs = << >> THEN << >> ELSE ClassFields(Head(cs)) \o ChainFields(Tail(cs))

DeclaredKeys(c) == { f.k : f \in { ChainFields(Chain(c))[i] : i \in DOMAIN ChainFields(Chain(c)) } }

\* the initializer that wins for field k of class c: the most derived one
Declared(c, k) ==
  LET fs == ChainFields(Chain(c))
      last == CHOOSE i \in DOMAIN fs : fs[i].k = k /\ \A j \in DOMAIN fs : fs[j].k = k => j <= i
  IN fs[last].init

(***************************************************************************)
(* new ConfigClass(): the field initializers run base class first.  A      *)
(* declaration without initializer defines the property as undefined when  *)
(* the build uses define semantics for class fields, and nothing           *)
(* otherwise.                                                              *)
(***************************************************************************)
Bind(v, owner) == IF v.t = "function" THEN [v EXCEPT !.o = owner] ELSE v

RECURSIVE RunInitializers(_, _, _, _)
RunInitializers(obj, fs, owner, define) ==
  IF fs = << >> THEN obj
  ELSE LET f == Head(fs) IN
    IF f.init = Undefined /\ ~ define
      THEN RunInitializers(obj, Tail(fs), owner, define)
      ELSE RunInitializers(Put(obj, f.k, Bind(f.init, owner)), Tail(fs), owner, define)

\* variant: the initializers run most derived class first, so a base
\* class's default replaces the override of a class that extends it
Construct_BaseWins(c, owner, define) ==
  LET chain == Chain(c)
      reversed == [i \in DOMAIN chain |-> chain[Len(chain) + 1 - i]]
  IN RunInitializers(<< >>, ChainFields(reversed), owner, define)

Construct(c, owner, define) == RunInitializers(<< >>, ChainFields(Chain(c)), owner, define)

(***************************************************************************)
(* FuntimeConfigLoader.register: the environment name of a class.          *)
(***************************************************************************)
ConfigSuffix == <<"c","o","n","f","i","g">>

\* cfg.name.toLowerCase().replace(/config$/, '')
EnvironmentName(c) ==
  LET lower == ToLowerCase(ClassName(c)) IN
    IF EndsWith(lower, ConfigSuffix)
      THEN SubSeq(lower, 1, Len(lower) - Len(ConfigSuffix))
      ELSE lower

\* variant: registering a class drops the classes of the other names
RegisterOne_Alone(configs, c) == [e \in {EnvironmentName(c)} |-> c]

\* variant: a name that is taken keeps its class
RegisterOne_KeepsFirst(configs, c) ==
  [e \in DOMAIN configs \cup {EnvironmentName(c)} |->
     IF e \in DOMAIN configs THEN configs[e] ELSE c]

\* this.configs.set(env, cfg) for one class
RegisterOne(configs, c) ==
  [e \in DOMAIN configs \cup {EnvironmentName(c)} |->
     IF e = EnvironmentName(c) THEN c ELSE configs[e]]

\* register(...config)
RECURSIVE register(_, _)
register(configs, cs) ==
  IF cs = << >> THEN configs ELSE register(RegisterOne(configs, Head(cs)), Tail(cs))

(***************************************************************************)
(* process.env: a function from variable names to raw texts.               *)
(***************************************************************************)
\* process.env[k] = v
EnvSet(e, k, v) == [x \in DOMAIN e \cup {k} |-> IF x = k THEN v ELSE e[x]]

\* delete process.env[k]
EnvDelete(e, k) == [x \in DOMAIN e \ {k} |-> e[x]]

(***************************************************************************)
(* FuntimeConfigLoader.loadEnvFile                                         *)
(***************************************************************************)
IsQuote(c) == c \in {"\"", "'"}

\* value.replace(/^["']/, '').replace(/["']$/, '')
Unquote(value) ==
  LET a == IF value # << >> /\ IsQuote(Head(value)) THEN Tail(value) ELSE value
  IN IF a # << >> /\ IsQuote(a[Len(a)]) THEN SubSeq(a, 1, Len(a) - 1) ELSE a

\* the body of the loop over the lines: one line applied to process.env
LoadEnvLine(e, line) ==
  IF line = << >> \/ StartsWith(Trim(line), <<"#">>) THEN e
  ELSE LET parts == Split(line, "=")
           key == Head(parts)
           valueParts == Tail(parts)
       IN IF key # << >> /\ Len(valueParts) > 0
            THEN EnvSet(e, Trim(key), Unquote(Trim(Join(valueParts, "="))))
            ELSE e

RECURSIVE LoadEnvLines(_, _)
LoadEnvLines(e, lines) ==
  IF lines = << >> THEN e ELSE LoadEnvLines(LoadEnvLine(e, Head(lines)), Tail(lines))

\* path.resolve(envFilePath): a relative path is taken from the working directory
PathResolve(path) == << "cwd", path >>

\* loadEnvFile(envFilePath) on process.env e and the file system fsys.  A path
\* that exists but cannot be read as a file makes readFileSync throw; the
\* catch logs the error and the environment is left as it is.
loadEnvFile(e, fsys, envFilePath) ==
  LET resolvedPath == PathResolve(envFilePath) IN
    IF resolvedPath \notin DOMAIN fsys THEN e
    ELSE IF fsys[resolvedPath].kind # "file" THEN e
    ELSE LoadEnvLines(e, Split(fsys[resolvedPath].text, "\n"))

(***************************************************************************)
(* plainToInstance(ConfigClass, configInstance) of class-transformer: a    *)
(* new instance of the class, then every own property of the plain object  *)
(* is copied onto it, in the plain object's order, except where the new    *)
(* instance holds a function under that key.                               *)
(***************************************************************************)
\* variant: function-valued properties of the source are copied as well
RECURSIVE CopyProperties_All(_, _)
CopyProperties_All(target, props) ==
  IF props = << >> THEN target
  ELSE CopyProperties_All(Put(target, Head(props).k, Head(props).v), Tail(props))

RECURSIVE CopyProperties(_, _)
CopyProperties(target, props) ==
  IF props = << >> THEN target
  ELSE LET p == Head(props) IN
    IF Get(target, p.k).t = "function"
      THEN CopyProperties(target, Tail(props))
      ELSE CopyProperties(Put(target, p.k, p.v), Tail(props))

plainToInstance(c, plain, define) ==
  CopyProperties(Construct(c, "instance", define), plain)

(***************************************************************************)
(* The loop of load() over Object.entries(process.env).  The entries are   *)
(* taken in one fixed order of the variable names.                         *)
(***************************************************************************)
EnvOrder == << NODE_ENV, PATH, TEST_STR, TEST_NUM, TEST_BOOL, TEST_RESOLVED,
               TEST_SECRET, TEST_APP_NAME, TEST_COPY, TEST_AHEAD, TEST_LATER,
               TEST_STRING >>

\* variant: the raw text of a variable is assigned, not its coercion
RECURSIVE ApplyEnv_Raw(_, _, _)
ApplyEnv_Raw(obj, e, order) ==
  IF order = << >> THEN obj
  ELSE IF Head(order) \in DOMAIN e
    THEN ApplyEnv_Raw(Put(obj, Head(order), Str(e[Head(order)])), e, Tail(order))
    ELSE ApplyEnv_Raw(obj, e, Tail(order))

RECURSIVE ApplyEnv(_, _, _)
ApplyEnv(obj, e, order) ==
  IF order = << >> THEN obj
  ELSE IF Head(order) \in DOMAIN e
    THEN ApplyEnv(Put(obj, Head(order), parseEnvValue(e[Head(order)])), e, Tail(order))
    ELSE ApplyEnv(obj, e, Tail(order))

\* lines 117-125: new ConfigClass(), then every variable coerced onto it
Populate(c, e, define) == ApplyEnv(Construct(c, "draft", define), e, EnvOrder)

(***************************************************************************)
(* validateSync(instance) of class-validator: one error per property with  *)
(* a failing decorator of the class or of a class it extends; an error     *)
(* carries the messages of the property's failing constraints.             *)
(***************************************************************************)
RuleHolds(rule, v) ==
  CASE rule = "isString" -> v.t = "string"
    [] rule = "isNumber" -> v.t = "number"
    [] rule = "isBoolean" -> v.t = "boolean"
    [] rule = "isObject" -> v.t \in {"object", "function"}
    [] OTHER -> TRUE

RuleMessage(k, rule) ==
  k \o (CASE rule = "isString" -> <<" ","m","u","s","t"," ","b","e"," ","a"," ","s","t","r","i","n","g">>
          [] rule = "isNumber" -> <<" ","m","u","s","t"," ","b","e"," ","a"," ","n","u","m","b","e","r"," ","c","o","n","f","o","r","m","i","n","g"," ","t","o"," ","t","h","e"," ","s","p","e","c","i","f","i","e","d"," ","c","o","n","s","t","r","a","i","n","t","s">>
          [] rule = "isBoolean" -> <<" ","m","u","s","t"," ","b","e"," ","a"," ","b","o","o","l","e","a","n"," ","v","a","l","u","e">>
          [] OTHER -> <<" ","m","u","s","t"," ","b","e"," ","a","n"," ","o","b","j","e","c","t">>)

\* the decorated fields of the chain, each (k, rule) once, in declaration order
RECURSIVE Rules(_, _)
Rules(fs, seen) ==
  IF fs = << >> THEN << >>
  ELSE LET f == Head(fs) IN
    IF f.rule = "" \/ << f.k, f.rule >> \in seen
      THEN Rules(Tail(fs), seen)
      ELSE << [k |-> f.k, rule |-> f.rule] >> \o Rules(Tail(fs), seen \cup {<< f.k, f.rule >>})

\* the constraint messages of property k: Object.values(e.constraints)
Constraints(rules, obj, k) ==
  LET failing == SelectSeq(rules, LAMBDA r : r.k = k /\ ~ RuleHolds(r.rule, Get(obj, k)))
  IN [i \in DOMAIN failing |-> RuleMessage(k, failing[i].rule)]

RECURSIVE ErrorsOf(_, _, _, _)
ErrorsOf(rules, all, obj, done) ==
  IF rules = << >> THEN << >>
  ELSE LET k == Head(rules).k IN
    IF k \in done \/ Constraints(all, obj, k) = << >>
      THEN ErrorsOf(Tail(rules), all, obj, done \cup {k})
      ELSE << [property |-> k, constraints |-> Constraints(all, obj, k)] >>
             \o ErrorsOf(Tail(rules), all, obj, done \cup {k})

validateSync(c, obj) ==
  LET rules == Rules(ChainFields(Chain(c)), {}) IN ErrorsOf(rules, rules, obj, {})

\* Array.prototype.join with a separator of several characters
RECURSIVE JoinText(_, _)
JoinText(parts, sep) ==
  IF parts = << >> THEN << >>
  ELSE IF Len(parts) = 1 THEN parts[1]
  ELSE parts[1] \o sep \o JoinText(Tail(parts), sep)

\* variant: the message holds the constraints of the first error only
ValidationMessage_FirstOnly(errors) ==
  <<"V","a","l","i","d","a","t","i","o","n"," ","f","a","i","l","e","d",":"," ">> \o JoinText(errors[1].constraints, <<","," ">>)

\* line 140: the message of the Error thrown for a non-empty list of errors
ValidationMessage(errors) ==
  <<"V","a","l","i","d","a","t","i","o","n"," ","f","a","i","l","e","d",":"," ">>
    \o JoinText([i \in DOMAIN errors |-> JoinText(errors[i].constraints, <<","," ">>)], <<";"," ">>)

(***************************************************************************)
(* The resolvers of the function-valued fields.  A resolver is called with *)
(* `this` bound to the object its arrow function closes over and returns,  *)
(* or asynchronously produces, a value; a fetching resolver may reject.    *)
(***************************************************************************)
NaN == [t |-> "nan", n |-> 0, s |-> << >>, o |-> ""]

Resolved == Str(<<"R","E","S","O","L","V","E","D","_","V","A","L","U","E">>)

\* v * 2 in JavaScript
Twice(v) ==
  CASE v.t = "number" -> Num(2 * v.n)
    [] v.t = "boolean" -> Num(2 * v.n)
    [] v.t = "null" -> Num(0)
    [] v.t = "infinity" -> v
    [] v.t = "string" /\ ~ NumberIsNaN(v.s) ->
         IF NumberOf(v.s).t = "number" THEN Num(2 * NumberOf(v.s).n) ELSE NumberOf(v.s)
    [] OTHER -> NaN

\* the outcomes [ok, v] of calling resolver r with `this` = self
\* variant: a resolver that reads a field still holding a function gets the
\* value that function resolves to
Invoke_Resolving(r, self) ==
  CASE r = "double_TEST_NUM" -> { [ok |-> TRUE, v |-> Twice(Get(self, TEST_NUM))] }
    [] r = "read_TEST_APP_NAME" -> { [ok |-> TRUE, v |-> Get(self, TEST_APP_NAME)] }
    [] r = "read_TEST_LATER" ->
         { [ok |-> TRUE, v |-> IF Get(self, TEST_LATER).t = "function"
                                 THEN Resolved ELSE Get(self, TEST_LATER)] }
    [] r = "fetch_value" -> { [ok |-> TRUE, v |-> Resolved], [ok |-> FALSE, v |-> Undefined] }
    [] OTHER -> { [ok |-> TRUE, v |-> Resolved] }

Invoke(r, self) ==
  CASE r = "double_TEST_NUM" -> { [ok |-> TRUE, v |-> Twice(Get(self, TEST_NUM))] }
    [] r = "read_TEST_APP_NAME" -> { [ok |-> TRUE, v |-> Get(self, TEST_APP_NAME)] }
    [] r = "read_TEST_LATER" -> { [ok |-> TRUE, v |-> Get(self, TEST_LATER)] }
    [] r = "fetch_value" -> { [ok |-> TRUE, v |-> Resolved], [ok |-> FALSE, v |-> Undefined] }
    [] OTHER -> { [ok |-> TRUE, v |-> Resolved] }

(***************************************************************************)
(* The modelled world: loaders and their options, files, modules.          *)
(***************************************************************************)
MaxOps == 2

\* the load() calls of a run: the i-th call is call i
Calls == 1..MaxOps

Loaders == {"A", "B"}

DotEnv == <<".","e","n","v">>
TestEnvPath == <<"t","e","s","t",".","e","n","v">>
LocalConfigPath == <<".","/","l","o","c","a","l",".","c","o","n","f","i","g">>
BadConfigPath == <<".","/","b","a","d",".","c","o","n","f","i","g">>
MissingConfigPath == <<".","/","m","i","s","s","i","n","g",".","c","o","n","f","i","g">>

Options(configs, localConfigPath, envFilePath) ==
  [configs |-> configs, localConfigPath |-> localConfigPath, envFilePath |-> envFilePath]

\* the options of loader B
OptionsB == Options(<< "TestConfig", "LocalConfigA" >>, Undefined, Undefined)

\* the classes a caller passes to load()
ExplicitConfigs == {"TestConfig", "LocalConfigM"}

\* the classes a caller registers after construction
LateConfigs == {"ProductionConfig", "LocalConfigM"}

File(text) == [kind |-> "file", text |-> text]
Directory == [kind |-> "directory", text |-> << >>]

DotEnvText == <<"N","O","D","E","_","E","N","V","=","l","o","c","a","l","\n","T","E","S","T","_","N","U","M","=","7">>

TestEnvText == <<"#"," ","s","e","t","t","i","n","g","s","\n","T","E","S","T","_","N","U","M"," ","="," ","'","7","'","\n","\n","T","E","S","T","_","S","T","R","=","a","=","b","\n","n","o","t"," ","a"," ","s","e","t","t","i","n","g","\n","P","A","T","H","=","\"","/","f","i","l","e","\"">>

NoFiles == [p \in {} |-> Directory]

BothFiles ==
  [p \in {PathResolve(DotEnv), PathResolve(TestEnvPath)} |->
     IF p = PathResolve(DotEnv) THEN File(DotEnvText) ELSE File(TestEnvText)]

NotAFile == [p \in {PathResolve(TestEnvPath)} |-> Directory]

\* the modules import() can load; any other specifier makes import() reject
Modules ==
  [p \in {LocalConfigPath, BadConfigPath} |->
     IF p = LocalConfigPath
       THEN [LocalConfig |-> "", default |-> "LocalConfigM"]
       ELSE [LocalConfig |-> "NotAConfig", default |-> ""]]

Env(pairs) == [k \in { p[1] : p \in pairs } |-> (CHOOSE p \in pairs : p[1] = k)[2]]

World(e, fsys, opts) == [env |-> e, files |-> fsys, options |-> opts]

\* the worlds a run may start in: process.env, the file system, and the
\* options loader A is constructed with
Worlds ==
  { World(Env({ << NODE_ENV, <<"t","e","s","t">> >>, << TEST_NUM, <<"5">> >>, << TEST_BOOL, <<"T","R","U","E">> >>,
                << PATH, <<"/","b","i","n">> >>, << TEST_RESOLVED, <<"1">> >> }),
          NoFiles,
          Options(<< "TestConfig", "ProductionConfig", "LazyConfig" >>, Undefined, Undefined)),
    World(Env({ << NODE_ENV, <<"l","o","c","a","l">> >>, << TEST_NUM, <<"5">> >> }),
          BothFiles,
          Options(<< "TestConfig", "LocalConfigA" >>, Str(LocalConfigPath), Str(TestEnvPath))),
    World(Env({ << TEST_NUM, <<"5">> >>, << TEST_STRING, <<"{","\"","a","\"",":"," ","1","}">> >> }),
          BothFiles,
          Options(<< >>, Str(BadConfigPath), Bool(TRUE))),
    World(Env({ << NODE_ENV, << >> >> }),
          NoFiles,
          Options(<< "BaseConfig", "LazyConfig" >>, Str(MissingConfigPath), Bool(FALSE))),
    World(Env({ << NODE_ENV, <<"l","a","z","y">> >>, << TEST_APP_NAME, <<"a","m","b","i","e","n","t">> >> }),
          NoFiles,
          Options(<< "BaseConfig", "LazyConfig" >>, Undefined, Undefined)),
    World(Env({ << NODE_ENV, <<"p","r","o","d","u","c","t","i","o","n">> >>, << TEST_SECRET, <<"s","u","p","e","r","s","e","c","r","e","t">> >>,
                << TEST_BOOL, <<"f","a","l","s","e">> >> }),
          NoFiles,
          Options(<< "TestConfig", "ProductionConfig", "LazyConfig" >>, Undefined, Undefined)),
    World(Env({ << TEST_APP_NAME, <<"T","R","u","e">> >>, << TEST_SECRET, <<" "," ">> >>, << TEST_LATER, <<"n","u","l","l">> >>,
                << TEST_AHEAD, <<"[","1",","," ","2","]">> >>, << TEST_COPY, <<"\"","h","i","\"">> >>, << TEST_STRING, <<>> >>,
                << PATH, <<"-","1","2">> >> }),
          NotAFile,
          Options(<< "TestConfig" >>, Undefined, Str(TestEnvPath))),
    World(Env({ << NODE_ENV, <<"l","a","z","y">> >> }),
          NoFiles,
          Options(<< "LazyConfig" >>, Undefined, Undefined)),
    World(Env({ << NODE_ENV, <<"l","o","c","a","l">> >> }),
          NoFiles,
          Options(<< >>, Str(LocalConfigPath), Undefined)) }

\* the assignments to process.env the host application makes
EnvWrites == { << NODE_ENV, <<"p","r","o","d","u","c","t","i","o","n">> >>, << TEST_NUM, <<"I","n","f","i","n","i","t","y">> >> }

(***************************************************************************)
(* State.                                                                  *)
(***************************************************************************)
VARIABLES
  env,        \* process.env
  files,      \* the file system: resolved path -> file or directory
  define,     \* the build defines class fields that have no initializer
  options,    \* this.options of every loader
  configs,    \* this.configs of every loader: environment name -> class
  calls,      \* the load() calls: where each stands and its local variables
  current,    \* the global config handle
  registered, \* every loader's registrations so far, oldest first
  ops         \* load() calls begun and host operations made so far

vars == << env, files, define, options, configs, calls, current, registered, ops >>

\* a load() call that has not started
Idle ==
  [pc |-> "idle", loader |-> "", config |-> "", nodeEnv |-> Undefined, cls |-> "",
   regs |-> 0, began |-> [k \in {} |-> << >>], seen |-> [k \in {} |-> << >>], draft |-> << >>, instance |-> << >>, entries |-> << >>, idx |-> 0,
   pending |-> [ok |-> TRUE, v |-> Undefined],
   error |-> [kind |-> "", text |-> << >>], trace |-> << >>]

Step(name, k) == [step |-> name, k |-> k]

\* the global handle before any load() has published
Unset == [by |-> 0, obj |-> << >>]

\* constructor: this.register(...options.configs) on an empty Map
NewLoader(opts) == register([e \in {} |-> ""], opts.configs)

\* one entry of a loader's registrations: the class, and whether register()
\* or the import of the local config module set it
Registration(via, cfg) == [via |-> via, cfg |-> cfg]

Init ==
  /\ \E w \in Worlds :
       /\ env = w.env
       /\ files = w.files
       /\ options = [l \in Loaders |-> IF l = "A" THEN w.options ELSE OptionsB]
  /\ define \in BOOLEAN
  /\ configs = [l \in Loaders |-> NewLoader(options[l])]
  /\ registered = [l \in Loaders |->
       [i \in DOMAIN options[l].configs |-> Registration("register", options[l].configs[i])]]
  /\ calls = [c \in Calls |-> Idle]
  /\ current = Unset
  /\ ops = 0

(***************************************************************************)
(* FuntimeConfigLoader.load, cut at its awaits.                            *)
(***************************************************************************)
\* JavaScript truthiness of the values tested by load()
\* variant: only undefined and null are falsy
Truthy_Defined(v) == v.t \notin {"undefined", "null"}

Truthy(v) ==
  CASE v.t \in {"undefined", "null", "nan"} -> FALSE
    [] v.t = "boolean" -> v.n = 1
    [] v.t = "number" -> v.n # 0
    [] v.t = "string" -> v.s # << >>
    [] OTHER -> TRUE

\* variant: the variables of the file replace the environment
AfterEnvFile_FileOnly(opts, e, fsys) ==
  IF Truthy(opts.envFilePath)
    THEN loadEnvFile([k \in {} |-> << >>], fsys,
                     IF opts.envFilePath = Bool(TRUE) THEN DotEnv ELSE opts.envFilePath.s)
    ELSE e

\* lines 89-92: the environment after the env-file step
AfterEnvFile(opts, e, fsys) ==
  IF Truthy(opts.envFilePath)
    THEN loadEnvFile(e, fsys, IF opts.envFilePath = Bool(TRUE) THEN DotEnv ELSE opts.envFilePath.s)
    ELSE e

\* process.env.NODE_ENV
ReadNodeEnv(e) == IF NODE_ENV \in DOMAIN e THEN Str(e[NODE_ENV]) ELSE Undefined

LocalName == <<"l","o","c","a","l">>

\* line 101: the module specifier, this.options.localConfigPath ?? ''
Specifier(opts) == IF opts.localConfigPath = Undefined THEN << >> ELSE opts.localConfigPath.s

\* line 102: module.LocalConfig || module.default ("" for a falsy export)
LocalExport(module) ==
  IF module.LocalConfig # "" THEN module.LocalConfig ELSE module.default

\* variant: whatever the module exports is registered
LocalLoaded_AnyExport(opts) ==
  /\ Specifier(opts) \in DOMAIN Modules
  /\ LocalExport(Modules[Specifier(opts)]) # ""

\* lines 101-103: the import succeeds and its export extends FuntimeConfig
LocalLoaded(opts) ==
  /\ Specifier(opts) \in DOMAIN Modules
  /\ LocalExport(Modules[Specifier(opts)]) # ""
  /\ ExtendsFuntimeConfig(LocalExport(Modules[Specifier(opts)]))

\* variant: a class already registered as 'local' is kept
AfterLocalImport_KeepsRegistered(opts, cfgs) ==
  IF LocalLoaded(opts) /\ LocalName \notin DOMAIN cfgs
    THEN [e \in DOMAIN cfgs \cup {LocalName} |->
            IF e = LocalName THEN LocalExport(Modules[Specifier(opts)]) ELSE cfgs[e]]
    ELSE cfgs

\* lines 100-108: this.configs after the attempt to import the local config
AfterLocalImport(opts, cfgs) ==
  IF LocalLoaded(opts)
    THEN [e \in DOMAIN cfgs \cup {LocalName} |->
            IF e = LocalName THEN LocalExport(Modules[Specifier(opts)]) ELSE cfgs[e]]
    ELSE cfgs

\* variant: a class registered under NODE_ENV is taken before the argument
SelectClass_PrefersRegistry(config, cfgs, nodeEnv) ==
  IF nodeEnv.t = "string" /\ nodeEnv.s \in DOMAIN cfgs THEN cfgs[nodeEnv.s]
  ELSE config

\* line 111: config ?? this.configs.get(nodeEnv) ("" for undefined)
SelectClass(config, cfgs, nodeEnv) ==
  IF config # "" THEN config
  ELSE IF nodeEnv.t = "string" /\ nodeEnv.s \in DOMAIN cfgs THEN cfgs[nodeEnv.s]
  ELSE ""

MissingMessage == <<"N","O","D","E","_","E","N","V"," ","e","n","v","i","r","o","n","m","e","n","t"," ","v","a","r","i","a","b","l","e"," ","i","s"," ","n","o","t"," ","s","e","t">>

UnknownMessage(nodeEnv) ==
  <<"N","o"," ","c","o","n","f","i","g","u","r","a","t","i","o","n"," ","r","e","g","i","s","t","e","r","e","d"," ","f","o","r"," ","N","O","D","E","_","E","N","V","=","\"">>
    \o (IF nodeEnv.t = "string" THEN nodeEnv.s ELSE <<"u","n","d","e","f","i","n","e","d">>) \o <<"\"">>

\* variant: validation still runs before the error leaves load()
Throw_ThenValidate(rec, kind, text) ==
  [rec EXCEPT !.pc = "thrown", !.error = [kind |-> kind, text |-> text],
              !.trace = Append(@, Step("validate", << >>))]

Throw(rec, kind, text) ==
  [rec EXCEPT !.pc = "thrown", !.error = [kind |-> kind, text |-> text]]

\* variant: the handle keeps the first instance it was given
setCurrent_FirstWins(c, instance) ==
  IF current.by = 0 THEN [by |-> c, obj |-> instance] ELSE current

\* the global handle after a successful load() by call c
setCurrent(c, instance) == [by |-> c, obj |-> instance]

\* variant: the calls share one instance, that of the first call
Finish_SharedInstance(rec) ==
  LET shared == IF calls[1].instance # << >>
                  THEN [rec EXCEPT !.instance = calls[1].instance] ELSE rec
      errors == validateSync(shared.cls, shared.instance)
      checked == [shared EXCEPT !.trace = Append(@, Step("validate", << >>))]
  IN IF Len(errors) > 0
       THEN Throw(checked, "validation", ValidationMessage(errors))
       ELSE [checked EXCEPT !.pc = "returned", !.trace = Append(@, Step("return", << >>))]

\* lines 138-142: validation, then the return
Finish(rec) ==
  LET errors == validateSync(rec.cls, rec.instance)
      checked == [rec EXCEPT !.trace = Append(@, Step("validate", << >>))]
  IN IF Len(errors) > 0
       THEN Throw(checked, "validation", ValidationMessage(errors))
       ELSE [checked EXCEPT !.pc = "returned", !.trace = Append(@, Step("return", << >>))]

\* variant: the last function-valued entry is taken, passing over the others
NextFunction_Last(entries, from) ==
  IF \E i \in from..Len(entries) : entries[i].v.t = "function"
    THEN CHOOSE i \in from..Len(entries) :
           /\ entries[i].v.t = "function"
           /\ \A j \in (i + 1)..Len(entries) : entries[j].v.t # "function"
    ELSE 0

\* the first entry at or after position from whose value is a function (0: none)
NextFunction(entries, from) ==
  IF \E i \in from..Len(entries) : entries[i].v.t = "function"
    THEN CHOOSE i \in from..Len(entries) :
           /\ entries[i].v.t = "function"
           /\ \A j \in from..(i - 1) : entries[j].v.t # "function"
    ELSE 0

\* lines 130-136 from entry `from` on, up to the next await: the states the
\* call may be in when it next suspends, throws or returns
Continue(rec, from) ==
  LET i == NextFunction(rec.entries, from) IN
    IF i = 0 THEN { Finish(rec) }
    ELSE LET key == rec.entries[i].k
             f == Get(rec.instance, key)
             self == IF f.o = "draft" THEN rec.draft ELSE rec.instance
         IN IF f.t # "function"
              THEN { Throw(rec, "type", key) }
              ELSE { [rec EXCEPT !.pc = "resolving", !.idx = i, !.pending = o,
                                 !.trace = Append(@, Step("invoke", key))]
                     : o \in Invoke(f.s[1], self) }

\* what a step of call c leaves in the global handle
Publish(c, rec) == IF rec.pc = "returned" THEN setCurrent(c, rec.instance) ELSE current

\* load(config) is called on loader l and runs to `await import(...)`
LoadBegin(c, l, config) ==
  /\ ops < MaxOps
  /\ calls[c].pc = "idle"
  /\ \A d \in Calls : d < c => calls[d].pc # "idle"
  /\ ops' = ops + 1
  /\ LET e == AfterEnvFile(options[l], env, files)
         nodeEnv == ReadNodeEnv(e)
         rec == [Idle EXCEPT !.loader = l, !.config = config, !.nodeEnv = nodeEnv,
                   !.regs = Len(registered[l]), !.began = e,
                   !.trace = IF Truthy(options[l].envFilePath)
                               THEN << Step("loadEnvFile", << >>) >> ELSE << >>]
     IN /\ env' = e
        /\ calls' = [calls EXCEPT ![c] =
             IF config = "" /\ ~ Truthy(nodeEnv)
               THEN Throw(rec, "missing", MissingMessage)
               ELSE [rec EXCEPT !.pc = "importing", !.trace = Append(@, Step("import", << >>))]]
  /\ UNCHANGED << files, define, options, configs, current, registered >>

\* the import settles: lines 102-136 up to the first awaited resolver
LoadImported(c) ==
  /\ calls[c].pc = "importing"
  /\ LET rec == calls[c]
         l == rec.loader
         cfgs == AfterLocalImport(options[l], configs[l])
         regs == IF LocalLoaded(options[l])
                   THEN [registered EXCEPT ![l] = Append(@, Registration("local", cfgs[LocalName]))]
                   ELSE registered
         ConfigClass == SelectClass(rec.config, cfgs, rec.nodeEnv)
         draft == Populate(ConfigClass, env, define)
         instance == plainToInstance(ConfigClass, draft, define)
         populated == [rec EXCEPT !.cls = ConfigClass, !.regs = Len(regs[l]),
                         !.seen = env, !.draft = draft,
                         !.instance = instance, !.entries = instance,
                         !.trace = Append(@, Step("populate", << >>))]
     IN /\ configs' = [configs EXCEPT ![l] = cfgs]
        /\ registered' = regs
        /\ IF ConfigClass = ""
             THEN /\ calls' = [calls EXCEPT ![c] =
                       Throw([rec EXCEPT !.regs = Len(regs[l])], "unknown", UnknownMessage(rec.nodeEnv))]
                  /\ current' = current
             ELSE \E next \in Continue(populated, 1) :
                    /\ calls' = [calls EXCEPT ![c] = next]
                    /\ current' = Publish(c, next)
  /\ UNCHANGED << env, files, define, options, ops >>

\* an awaited resolver settles: line 134's assignment, then the loop goes on
LoadResumed(c) ==
  /\ calls[c].pc = "resolving"
  /\ LET rec == calls[c]
         key == rec.entries[rec.idx].k
     IN IF ~ rec.pending.ok
          THEN /\ calls' = [calls EXCEPT ![c] = Throw(rec, "resolver", key)]
               /\ current' = current
          ELSE \E next \in Continue([rec EXCEPT !.instance = Put(@, key, rec.pending.v),
                                                !.trace = Append(@, Step("assign", key))],
                                    rec.idx + 1) :
                 /\ calls' = [calls EXCEPT ![c] = next]
                 /\ current' = Publish(c, next)
  /\ UNCHANGED << env, files, define, options, configs, registered, ops >>

(***************************************************************************)
(* The host application.                                                   *)
(***************************************************************************)
\* loader.register(cfg) after construction
Register(l, cfg) ==
  /\ ops < MaxOps
  /\ ops' = ops + 1
  /\ configs' = [configs EXCEPT ![l] = register(@, << cfg >>)]
  /\ registered' = [registered EXCEPT ![l] = Append(@, Registration("register", cfg))]
  /\ UNCHANGED << env, files, define, options, calls, current >>

\* process.env[k] = v
SetEnv(k, v) ==
  /\ ops < MaxOps
  /\ ops' = ops + 1
  /\ env' = EnvSet(env, k, v)
  /\ UNCHANGED << files, define, options, configs, calls, current, registered >>

\* delete process.env[k]
DeleteEnv(k) ==
  /\ ops < MaxOps
  /\ k \in DOMAIN env
  /\ ops' = ops + 1
  /\ env' = EnvDelete(env, k)
  /\ UNCHANGED << files, define, options, configs, calls, current, registered >>

Next ==
  \/ \E c \in Calls, l \in Loaders, config \in ExplicitConfigs \cup {""} : LoadBegin(c, l, config)
  \/ \E c \in Calls : LoadImported(c)
  \/ \E c \in Calls : LoadResumed(c)
  \/ \E l \in Loaders, cfg \in LateConfigs : Register(l, cfg)
  \/ \E w \in EnvWrites : SetEnv(w[1], w[2])
  \/ DeleteEnv(NODE_ENV)

Spec == Init /\ [][Next]_vars

\* every variable of process.env is one the population loop visits
EnvCovered == \A k \in DOMAIN env : \E i \in DOMAIN EnvOrder : EnvOrder[i] = k

(***************************************************************************)
(* Properties.                                                             *)
(***************************************************************************)
\* text contains sub
Contains(text, sub) ==
  \E i \in 1..(Len(text) - Len(sub) + 1) : SubSeq(text, i, i + Len(sub) - 1) = sub

\* the call has run the named step
HasStep(rec, name) == \E i \in DOMAIN rec.trace : rec.trace[i].step = name

\* NODE_ENV as read by the call is absent or empty
Blank(v) == v = Undefined \/ v = Str(<< >>)

\* the call threw before it selected a class
FailedSelection(rec) == rec.pc = "thrown" /\ rec.error.kind \in {"missing", "unknown"}

\* the environment name each class is expected to be registered under
ExpectedName(cfg) ==
  CASE cfg = "BaseConfig" -> <<"b","a","s","e">>
    [] cfg = "TestConfig" -> <<"t","e","s","t">>
    [] cfg = "ProductionConfig" -> <<"p","r","o","d","u","c","t","i","o","n">>
    [] cfg = "LazyConfig" -> <<"l","a","z","y">>
    [] cfg \in {"LocalConfigA", "LocalConfigM"} -> <<"l","o","c","a","l">>
    [] OTHER -> <<"n","o","t","a">>

\* the name a registration is made under
NameOf(reg) == IF reg.via = "local" THEN <<"l","o","c","a","l">> ELSE ExpectedName(reg.cfg)

\* the registrations of the call's loader under the selector's value that
\* were made before the call selected its class
Matching(rec) ==
  { i \in 1..rec.regs :
      rec.nodeEnv.t = "string" /\ NameOf(registered[rec.loader][i]) = rec.nodeEnv.s }

Latest(S) == CHOOSE i \in S : \A j \in S : j <= i

\* the reason class-validator gives for a failing decorator, after the name
RuleText(rule) ==
  CASE rule = "isString" -> <<" ","m","u","s","t"," ","b","e"," ","a"," ","s","t","r","i","n","g">>
    [] rule = "isNumber" -> <<" ","m","u","s","t"," ","b","e"," ","a"," ","n","u","m","b","e","r"," ","c","o","n","f","o","r","m","i","n","g"," ","t","o"," ","t","h","e"," ","s","p","e","c","i","f","i","e","d"," ","c","o","n","s","t","r","a","i","n","t","s">>
    [] rule = "isBoolean" -> <<" ","m","u","s","t"," ","b","e"," ","a"," ","b","o","o","l","e","a","n"," ","v","a","l","u","e">>
    [] OTHER -> <<" ","m","u","s","t"," ","b","e"," ","a","n"," ","o","b","j","e","c","t">>

\* the decorated fields of the call's class whose value fails the decorator
Failing(rec) ==
  { f \in { ChainFields(Chain(rec.cls))[i] : i \in DOMAIN ChainFields(Chain(rec.cls)) } :
      f.rule # "" /\ ~ RuleHolds(f.rule, Get(rec.instance, f.k)) }

\* C1: loading an env file never overwrites a variable the ambient
\* environment already holds: load()'s first step leaves every variable that
\* was set before the call at its value.
C1_AmbientWinsOverFile ==
  [][ \A c \in Calls :
        (calls[c].pc = "idle" /\ calls'[c].pc # "idle")
          => \A k \in DOMAIN env : k \in DOMAIN env' /\ env'[k] = env[k] ]_vars

\* C2: the instance load() returns has no property named after an ambient
\* variable that is not a declared field of the selected class's chain.
C2_OnlyDeclaredFields ==
  \A c \in Calls :
    calls[c].pc = "returned"
      => \A k \in DOMAIN calls[c].seen :
           k \notin DeclaredKeys(calls[c].cls) => ~ Has(calls[c].instance, k)

\* C3: with an explicit class, load() never fails on the selector and the
\* instance it returns is an instance of that class, whatever NODE_ENV holds
\* and whether or not the class is registered.
C3_ExplicitSchemaWins ==
  \A c \in Calls :
    calls[c].config # ""
      => /\ ~ FailedSelection(calls[c])
         /\ calls[c].pc = "returned" => calls[c].cls = calls[c].config

C3_Witness ==
  \E c \in Calls :
    /\ calls[c].pc = "returned"
    /\ calls[c].loader = "A"
    /\ calls[c].config = "LocalConfigM"
    /\ calls[c].nodeEnv = Str(<<"t","e","s","t">>)
    /\ configs["A"][<<"t","e","s","t">>] = "TestConfig"
    /\ \A e \in DOMAIN configs["A"] : configs["A"][e] # "LocalConfigM"
    /\ Get(calls[c].instance, TEST_STRING) = Str(<<"l","o","c","a","l","_","s","t","r","i","n","g">>)

\* C4 as stated: without an explicit class, the error is the missing
\* environment error exactly when NODE_ENV is absent, and the unknown
\* environment error when NODE_ENV has a value with no class registered.
C4_MissingIffAbsent ==
  \A c \in Calls :
    (calls[c].config = "" /\ FailedSelection(calls[c]))
      => (calls[c].error.kind = "missing" <=> calls[c].nodeEnv = Undefined)

\* C4, amended: without an explicit class, load() throws the missing
\* environment error when NODE_ENV is absent or empty, and the unknown
\* environment error when NODE_ENV is non-empty and no class is registered
\* under it; a call that fails so has built no instance and has run no
\* population, resolver or validation step.
C4_SelectionErrors ==
  \A c \in Calls :
    (calls[c].config = "" /\ calls[c].pc \notin {"idle", "importing"})
      => /\ Blank(calls[c].nodeEnv)
              => calls[c].pc = "thrown" /\ calls[c].error.kind = "missing"
         /\ (~ Blank(calls[c].nodeEnv) /\ Matching(calls[c]) = {})
              => calls[c].pc = "thrown" /\ calls[c].error.kind = "unknown"
         /\ FailedSelection(calls[c])
              => /\ calls[c].instance = << >>
                 /\ calls[c].cls = ""
                 /\ ~ HasStep(calls[c], "populate")
                 /\ ~ HasStep(calls[c], "invoke")
                 /\ ~ HasStep(calls[c], "validate")

C4_Witness ==
  \E c \in Calls :
    /\ calls[c].config = ""
    /\ calls[c].pc = "thrown"
    /\ calls[c].error.kind = "unknown"
    /\ calls[c].nodeEnv = Str(<<"p","r","o","d","u","c","t","i","o","n">>)
    /\ calls[c].error.text = <<"N","o"," ","c","o","n","f","i","g","u","r","a","t","i","o","n"," ","r","e","g","i","s","t","e","r","e","d"," ","f","o","r"," ","N","O","D","E","_","E","N","V","=","\"","p","r","o","d","u","c","t","i","o","n","\"">>

\* C5 as stated: for every class S registered with the loader, load() without
\* an explicit class under NODE_ENV = S's environment name returns an
\* instance of S.
C5_EveryRegisteredSchema ==
  \A c \in Calls :
    (calls[c].pc = "returned" /\ calls[c].config = "")
      => \A i \in DOMAIN options[calls[c].loader].configs :
           calls[c].nodeEnv = Str(ExpectedName(options[calls[c].loader].configs[i]))
             => calls[c].cls = options[calls[c].loader].configs[i]

\* C5, amended: for every class S that is the latest registration under its
\* environment name when load() selects (register() calls and the local
\* config module counted, the module registering under 'local'), load()
\* without an explicit class under NODE_ENV = that name selects S, and the
\* instance it returns is an instance of S.
C5_LatestRegisteredSchema ==
  \A c \in Calls :
    (calls[c].config = "" /\ calls[c].pc \notin {"idle", "importing"}
       /\ ~ Blank(calls[c].nodeEnv) /\ Matching(calls[c]) # {})
      => calls[c].cls = registered[calls[c].loader][Latest(Matching(calls[c]))].cfg

C5_Witness ==
  \E c \in Calls :
    /\ calls[c].pc = "returned"
    /\ calls[c].config = ""
    /\ calls[c].loader = "B"
    /\ calls[c].nodeEnv = Str(<<"l","o","c","a","l">>)
    /\ Cardinality(Matching(calls[c])) = 2
    /\ calls[c].cls = "LocalConfigM"

\* C6: every declared field whose initializer is not a function holds, on
\* the returned instance, the coercion of the ambient variable of its name
\* when there is one and its declared default otherwise.
C6_AmbientOverridesDefault ==
  \A c \in Calls :
    calls[c].pc = "returned"
      => \A k \in DeclaredKeys(calls[c].cls) :
           Declared(calls[c].cls, k).t # "function"
             => Get(calls[c].instance, k) =
                  IF k \in DOMAIN calls[c].seen
                    THEN parseEnvValue(calls[c].seen[k])
                    ELSE Declared(calls[c].cls, k)

C6_Witness ==
  \E c \in Calls :
    /\ calls[c].pc = "returned"
    /\ calls[c].cls = "TestConfig"
    /\ {TEST_NUM, TEST_BOOL} \subseteq DOMAIN calls[c].seen
    /\ calls[c].seen[TEST_NUM] = <<"5">>
    /\ calls[c].seen[TEST_BOOL] = <<"T","R","U","E">>
    /\ TEST_STR \notin DOMAIN calls[c].seen
    /\ Get(calls[c].instance, TEST_NUM) = Num(5)
    /\ Get(calls[c].instance, TEST_BOOL) = Bool(TRUE)
    /\ Get(calls[c].instance, TEST_STR) = Str(<<"t","e","s","t">>)

\* the fields class c declares itself
OwnFields(c) == { ClassFields(c)[i] : i \in DOMAIN ClassFields(c) }

\* C7: on a returned instance of a class D that extends B, a field D
\* overrides holds D's default when no ambient variable has its name, and a
\* field only B declares holds B's default, or the coerced ambient variable
\* when B declares it without a default.
C7_DerivedOverridesBase ==
  \A c \in Calls :
    (calls[c].pc = "returned" /\ ClassBase(calls[c].cls) \in Classes)
      => LET D == calls[c].cls
             B == ClassBase(D)
         IN /\ \A f \in OwnFields(D) :
                 (f.k \in DeclaredKeys(B) /\ f.k \notin DOMAIN calls[c].seen
                    /\ f.init.t # "function")
                   => Get(calls[c].instance, f.k) = f.init
            /\ \A f \in OwnFields(B) :
                 (\A g \in OwnFields(D) : g.k # f.k)
                   => /\ f.k \notin DOMAIN calls[c].seen
                           => Get(calls[c].instance, f.k) = f.init
                      /\ (f.k \in DOMAIN calls[c].seen /\ f.init = Undefined)
                           => Get(calls[c].instance, f.k) = parseEnvValue(calls[c].seen[f.k])

C7_Witness ==
  \E c \in Calls :
    /\ calls[c].pc = "returned"
    /\ calls[c].cls = "TestConfig"
    /\ DOMAIN calls[c].seen \cap {TEST_STR, TEST_NUM} = {}
    /\ TEST_BOOL \in DOMAIN calls[c].seen
    /\ calls[c].seen[TEST_BOOL] = <<"f","a","l","s","e">>
    /\ Get(calls[c].instance, TEST_STR) = Str(<<"t","e","s","t">>)
    /\ Get(calls[c].instance, TEST_NUM) = Num(69)
    /\ Get(calls[c].instance, TEST_BOOL) = Bool(FALSE)

\* the field a resolver reads, and what it makes of the value read
ReadsField(r) ==
  CASE r = "double_TEST_NUM" -> TEST_NUM
    [] r = "read_TEST_APP_NAME" -> TEST_APP_NAME
    [] r = "read_TEST_LATER" -> TEST_LATER
    [] OTHER -> << >>

ResultFrom(r, v) == IF r = "double_TEST_NUM" THEN Twice(v) ELSE v

Position(obj, k) == CHOOSE i \in DOMAIN obj : obj[i].k = k

\* C8: once the resolvers of a call have run, a lazy field whose resolver
\* reads a field that precedes it in the instance's field order holds the
\* result computed from that field's final value: the declared default or
\* the coerced ambient variable of a field that is not lazy, the resolved
\* value, never the function, of a field that is.
C8_ResolverReadsFinalValue ==
  \A c \in Calls :
    HasStep(calls[c], "validate")
      => \A a \in DOMAIN calls[c].entries :
           LET A == calls[c].entries[a]
               B == ReadsField(A.v.s[1])
           IN (A.v.t = "function" /\ B # << >> /\ Has(calls[c].entries, B)
                 /\ Position(calls[c].entries, B) < a)
                => /\ Get(calls[c].instance, B).t # "function"
                   /\ Get(calls[c].instance, A.k) = ResultFrom(A.v.s[1], Get(calls[c].instance, B))
                   /\ Declared(calls[c].cls, B).t # "function"
                        => Get(calls[c].instance, B) =
                             IF B \in DOMAIN calls[c].seen
                               THEN parseEnvValue(calls[c].seen[B])
                               ELSE Declared(calls[c].cls, B)

C8_Witness ==
  \E c \in Calls :
    /\ calls[c].pc = "returned"
    /\ calls[c].cls = "TestConfig"
    /\ Get(calls[c].instance, TEST_NUM) = Num(69)
    /\ Get(calls[c].instance, TEST_RESOLVED) = Num(138)

C10_GlobalHandleHoldsReturned ==
  [][ \A c \in Calls :
        (calls[c].pc # "returned" /\ calls'[c].pc = "returned")
          => current' = [by |-> c, obj |-> calls'[c].instance] ]_vars

C10_Witness ==
  \E c \in Calls :
    /\ c > 1
    /\ calls[c].pc = "returned"
    /\ calls[1].pc = "returned"
    /\ current.by = c
    /\ current.obj = calls[c].instance
    /\ current.obj # calls[1].instance

\* the loader has no local config path, or one whose module is missing or
\* exports no class that extends FuntimeConfig
LocalUnavailable(l) ==
  options[l].localConfigPath \in {Undefined, Str(BadConfigPath), Str(MissingConfigPath)}

\* the class a call selects from the registry as it stands, "" for none
SelectedFrom(rec, cfgs) ==
  IF rec.config # "" THEN rec.config
  ELSE IF rec.nodeEnv.t = "string" /\ rec.nodeEnv.s \in DOMAIN cfgs THEN cfgs[rec.nodeEnv.s]
  ELSE ""

\* C11: when the local config module cannot be loaded (no path, module not
\* found, an export that does not extend FuntimeConfig) the import step of
\* load() throws nothing and leaves the loader's registry as it was; the
\* call goes on to select its class from that registry, and fails there
\* only with the unknown-environment error when the registry has no class.
C11_LocalFailureIsNotFatal ==
  [][ \A c \in Calls :
        (calls[c].pc = "importing" /\ calls'[c].pc # "importing"
           /\ LocalUnavailable(calls[c].loader))
          => LET l == calls[c].loader
                 expected == SelectedFrom(calls[c], configs[l])
             IN /\ configs'[l] = configs[l]
                /\ registered'[l] = registered[l]
                /\ calls'[c].cls = expected
                /\ expected = ""
                     <=> (calls'[c].pc = "thrown" /\ calls'[c].error.kind = "unknown")
                /\ expected # "" => HasStep(calls'[c], "populate") ]_vars

C11_Witness ==
  \E c \in Calls :
    /\ calls[c].pc = "returned"
    /\ options[calls[c].loader].localConfigPath = Str(MissingConfigPath)
    /\ LocalName \notin DOMAIN configs[calls[c].loader]
    /\ HasStep(calls[c], "import")

\* C12: a loader whose local config path names a module that exports a
\* class extending FuntimeConfig selects that class when load() is called
\* without a class under NODE_ENV = 'local', whether the loader was
\* constructed with no classes or with another class named LocalConfig, and
\* returns an instance of it unless validation fails.
C12_LocalSchemaSelected ==
  \A c \in Calls :
    (calls[c].config = "" /\ calls[c].nodeEnv = Str(<<"l","o","c","a","l">>)
       /\ options[calls[c].loader].localConfigPath = Str(LocalConfigPath)
       /\ calls[c].pc \notin {"idle", "importing"})
      => /\ calls[c].cls = "LocalConfigM"
         /\ Failing(calls[c]) = {}
              => /\ calls[c].pc = "returned"
                 /\ Get(calls[c].instance, TEST_STRING) = Str(<<"l","o","c","a","l","_","s","t","r","i","n","g">>)

C12_Witness ==
  \E c \in Calls :
    /\ calls[c].pc = "returned"
    /\ calls[c].config = ""
    /\ calls[c].nodeEnv = Str(<<"l","o","c","a","l">>)
    /\ options[calls[c].loader].configs = << >>
    /\ calls[c].cls = "LocalConfigM"
    /\ Get(calls[c].instance, TEST_STRING) = Str(<<"l","o","c","a","l","_","s","t","r","i","n","g">>)

\* raw is 'true' / 'false' in some mix of cases
IsTrueText(raw) ==
  /\ Len(raw) = 4
  /\ raw[1] \in {"t", "T"} /\ raw[2] \in {"r", "R"} /\ raw[3] \in {"u", "U"} /\ raw[4] \in {"e", "E"}

IsFalseText(raw) ==
  /\ Len(raw) = 5
  /\ raw[1] \in {"f", "F"} /\ raw[2] \in {"a", "A"} /\ raw[3] \in {"l", "L"}
  /\ raw[4] \in {"s", "S"} /\ raw[5] \in {"e", "E"}

\* the coercion policy: the first rule that matches decides
Policy(raw) ==
  IF IsTrueText(raw) THEN Bool(TRUE)
  ELSE IF IsFalseText(raw) THEN Bool(FALSE)
  ELSE IF raw # << >> /\ ~ NumberIsNaN(raw) THEN NumberOf(raw)
  ELSE IF JsonValid(raw) THEN JsonParse(raw)
  ELSE Str(raw)

\* C13: every variable load() coerces gets the value of the fixed-order
\* policy: boolean for 'true' / 'false' in any case, else the number for a
\* non-empty text Number() accepts, else the parsed value of a valid JSON
\* document, else the text itself; the empty text stays the empty text.
C13_CoercionPolicy ==
  \A c \in Calls :
    HasStep(calls[c], "populate")
      => \A k \in DOMAIN calls[c].seen :
           /\ Get(calls[c].draft, k) = Policy(calls[c].seen[k])
           /\ calls[c].seen[k] = << >> => Get(calls[c].draft, k) = Str(<< >>)

C13_Witness ==
  \E c \in Calls :
    /\ HasStep(calls[c], "populate")
    /\ {TEST_APP_NAME, TEST_SECRET, TEST_LATER, TEST_AHEAD, TEST_COPY, TEST_STRING, PATH}
         \subseteq DOMAIN calls[c].seen
    /\ calls[c].seen[TEST_STRING] = << >>
    /\ Get(calls[c].draft, TEST_STRING) = Str(<< >>)
    /\ Get(calls[c].draft, TEST_APP_NAME) = Bool(TRUE)
    /\ Get(calls[c].draft, TEST_SECRET) = Num(0)
    /\ Get(calls[c].draft, PATH) = Num(0 - 12)
    /\ Get(calls[c].draft, TEST_LATER) = Null
    /\ Get(calls[c].draft, TEST_AHEAD).t = "array"
    /\ Get(calls[c].draft, TEST_COPY) = Str(<<"h","i">>)

\* C14: a loader constructed without an envFilePath option loads the '.env'
\* file of the working directory in the first step of load(): the variables
\* that file sets are set afterwards.
C14_DefaultEnvFile ==
  [][ \A c \in Calls :
        (calls[c].pc = "idle" /\ calls'[c].pc # "idle"
           /\ options[calls'[c].loader].envFilePath = Undefined
           /\ PathResolve(DotEnv) \in DOMAIN files
           /\ files[PathResolve(DotEnv)] = File(<<"N","O","D","E","_","E","N","V","=","l","o","c","a","l","\n","T","E","S","T","_","N","U","M","=","7">>))
          => {NODE_ENV, TEST_NUM} \subseteq DOMAIN env' ]_vars

\* the last step the call has run
LastStep(rec) == rec.trace[Len(rec.trace)]

\* C15: the step on which load() throws leaves the global config handle as
\* it was and is the last step of the call: nothing of the call runs after
\* it.  A call that fails on NODE_ENV has imported, populated, resolved and
\* validated nothing; one that fails on selection has populated, resolved
\* and validated nothing; one whose resolver rejects stops at that resolver
\* without storing a value for it and without validating; one that fails
\* validation does not return.  The handle never holds a failed call's
\* instance.
C15_FailsAtomically ==
  [][ \A c \in Calls :
        /\ (calls[c].pc # "thrown" /\ calls'[c].pc = "thrown")
             => /\ current' = current
                /\ calls'[c].error.kind = "missing"
                     => \A s \in {"import", "populate", "invoke", "validate", "return"} :
                          ~ HasStep(calls'[c], s)
                /\ calls'[c].error.kind = "unknown"
                     => \A s \in {"populate", "invoke", "validate", "return"} :
                          ~ HasStep(calls'[c], s)
                /\ calls'[c].error.kind = "resolver"
                     => /\ LastStep(calls'[c]) = Step("invoke", calls'[c].error.text)
                        /\ ~ HasStep(calls'[c], "validate")
                        /\ ~ HasStep(calls'[c], "return")
                        /\ Get(calls'[c].instance, calls'[c].error.text).t = "function"
                /\ calls'[c].error.kind = "validation"
                     => /\ LastStep(calls'[c]) = Step("validate", << >>)
                        /\ ~ HasStep(calls'[c], "return")
        /\ calls[c].pc = "thrown" => calls'[c] = calls[c]
        /\ calls'[c].pc = "thrown" => current'.by # c ]_vars

C15_Witness ==
  \E c, d \in Calls :
    /\ calls[d].pc = "returned"
    /\ current = [by |-> d, obj |-> calls[d].instance]
    /\ calls[c].pc = "thrown"
    /\ calls[c].error.kind = "resolver"
    /\ calls[c].error.text = TEST_APP_NAME
    /\ Get(calls[c].instance, TEST_COPY).t = "function"
    /\ Len(SelectSeq(calls[c].trace, LAMBDA s : s.step = "invoke")) = 1

\* the resolver steps of a call, in the order they ran
ResolverSteps(rec) == SelectSeq(rec.trace, LAMBDA s : s.step \in {"invoke", "assign"})

\* C16: the resolver steps of a call alternate: a resolver is invoked, its
\* result is stored, and only then is the next one invoked, so at most one
\* resolver of a call is in flight.  A resolver is invoked only when every
\* function-valued field before it in the instance's field order has had
\* its result stored, and no resolver is invoked twice.
C16_ResolversRunOneAtATime ==
  \A c \in Calls :
    LET rs == ResolverSteps(calls[c]) IN
      /\ \A i \in DOMAIN rs :
           /\ rs[i].step = (IF i % 2 = 1 THEN "invoke" ELSE "assign")
           /\ i % 2 = 0 => rs[i].k = rs[i - 1].k
           /\ \A j \in DOMAIN rs : j # i => rs[j] # rs[i]
           /\ i % 2 = 1
                => \A q \in 1..(Position(calls[c].entries, rs[i].k) - 1) :
                     calls[c].entries[q].v.t = "function"
                       => \E j \in 1..(i - 1) : rs[j] = Step("assign", calls[c].entries[q].k)
      /\ calls[c].pc = "resolving"
           <=> (Len(rs) % 2 = 1 /\ calls[c].error.kind = "")
      /\ HasStep(calls[c], "validate")
           => \A q \in DOMAIN calls[c].entries :
                calls[c].entries[q].v.t = "function"
                  => \E j \in DOMAIN rs : rs[j] = Step("assign", calls[c].entries[q].k)

C16_Witness ==
  \E c \in Calls :
    /\ calls[c].pc = "resolving"
    /\ calls[c].cls = "LazyConfig"
    /\ ResolverSteps(calls[c]) =
         << Step("invoke", TEST_APP_NAME), Step("assign", TEST_APP_NAME),
            Step("invoke", TEST_COPY), Step("assign", TEST_COPY),
            Step("invoke", TEST_AHEAD) >>

\* C17: the variables a call populates from are the ones the environment
\* held when the call read NODE_ENV for its selection: one snapshot serves
\* both, whatever is written to the environment while the call is
\* suspended.
C17_OneEnvironmentSnapshot ==
  \A c \in Calls : HasStep(calls[c], "populate") => calls[c].seen = calls[c].began

\* the instance of the call is built from the call's own class and from the
\* variables the call itself read
BuiltFromOwn(rec) ==
  /\ \A k \in DeclaredKeys(rec.cls) :
       Declared(rec.cls, k).t # "function"
         => Get(rec.instance, k) =
              IF k \in DOMAIN rec.seen THEN Policy(rec.seen[k]) ELSE Declared(rec.cls, k)
  /\ \A i \in DOMAIN rec.instance :
       rec.instance[i].k \in DeclaredKeys(rec.cls) \cup DOMAIN rec.seen

\* C18: interleaved load() calls are independent.  A step of one call
\* writes no other call's record, and an instance that was returned is not
\* written again; a returned instance is built from its own call's class,
\* defaults and variables.  The global config handle is unset or holds the
\* instance of a call that returned, namely the one that returned last.
C18_InterleavedCallsAreIndependent ==
  [][ /\ \A c, d \in Calls :
           (c # d /\ calls'[c] # calls[c]) => calls'[d] = calls[d]
      /\ \A c \in Calls :
           /\ calls[c].pc = "returned" => calls'[c] = calls[c]
           /\ calls'[c].pc = "returned" => BuiltFromOwn(calls'[c])
           /\ (calls[c].pc # "returned" /\ calls'[c].pc = "returned") => current'.by = c
      /\ IF \E c \in Calls : calls'[c].pc = "returned"
           THEN /\ current'.by \in Calls
                /\ calls'[current'.by].pc = "returned"
                /\ current'.obj = calls'[current'.by].instance
           ELSE current' = Unset ]_vars

C18_Witness ==
  /\ calls[1].pc = "returned"
  /\ calls[2].pc = "returned"
  /\ calls[1].cls = "TestConfig"
  /\ calls[2].cls = "LocalConfigM"
  /\ calls[1].instance # calls[2].instance
  /\ current = [by |-> 1, obj |-> calls[1].instance]

\* the names the loader's registrations were made under
RegisteredNames(l) == { NameOf(registered[l][i]) : i \in DOMAIN registered[l] }

\* the registrations of loader l under name e
Under(l, e) == { i \in DOMAIN registered[l] : NameOf(registered[l][i]) = e }

\* C19: a loader's registry maps exactly the names something was registered
\* under, each to one class, the one registered under it last; a register
\* call leaves the classes of all other names as they were.
C19_RegistryLastWins ==
  [][ \A l \in Loaders :
        /\ DOMAIN configs'[l] = { NameOf(registered'[l][i]) : i \in DOMAIN registered'[l] }
        /\ \A e \in DOMAIN configs'[l] :
             LET under == { i \in DOMAIN registered'[l] : NameOf(registered'[l][i]) = e }
             IN configs'[l][e] = registered'[l][Latest(under)].cfg
        /\ Len(registered'[l]) = Len(registered[l]) + 1
             => \A e \in DOMAIN configs[l] :
                  e # NameOf(registered'[l][Len(registered'[l])])
                    => (e \in DOMAIN configs'[l] /\ configs'[l][e] = configs[l][e]) ]_vars

C19_Witness ==
  \E l \in Loaders :
    /\ Cardinality(Under(l, <<"l","o","c","a","l">>)) = 2
    /\ registered[l][Len(registered[l])] = Registration("register", "LocalConfigM")
    /\ configs[l][<<"l","o","c","a","l">>] = "LocalConfigM"
    /\ configs[l][<<"t","e","s","t">>] = "TestConfig"

\* how often the call has invoked the resolver of field k
Invocations(rec, k) == Len(SelectSeq(rec.trace, LAMBDA s : s = Step("invoke", k)))

\* C20: resolution is one pass.  No resolver is invoked twice, and a call
\* that reaches validation has invoked every resolver once.  A lazy field
\* whose resolver reads a lazy field that comes later in the field order
\* then holds that field's function, and the later field holds its own
\* resolved value.
C20_ForwardReferenceSeesFunction ==
  \A c \in Calls :
    /\ \A q \in DOMAIN calls[c].entries : Invocations(calls[c], calls[c].entries[q].k) <= 1
    /\ HasStep(calls[c], "validate")
         => \A a \in DOMAIN calls[c].entries :
              LET A == calls[c].entries[a]
                  B == ReadsField(A.v.s[1])
              IN A.v.t = "function"
                   => /\ Invocations(calls[c], A.k) = 1
                      /\ (B # << >> /\ Has(calls[c].entries, B)
                            /\ Position(calls[c].entries, B) > a
                            /\ Get(calls[c].entries, B).t = "function")
                           => /\ Get(calls[c].instance, A.k) = Get(calls[c].entries, B)
                              /\ Get(calls[c].instance, B).t # "function"

C20_Witness ==
  \E c \in Calls :
    /\ calls[c].pc = "returned"
    /\ calls[c].cls = "LazyConfig"
    /\ Get(calls[c].instance, TEST_AHEAD) = Fn("const_value", "instance")
    /\ Get(calls[c].instance, TEST_LATER) = Resolved
    /\ Invocations(calls[c], TEST_AHEAD) = 1
    /\ Invocations(calls[c], TEST_LATER) = 1

\* C21: what an env-file step writes to the environment stays there.  No
\* step by which a call goes on, returns or fails changes the environment;
\* the first step of a load() removes no variable, and changes none when
\* its loader has no env file; every call, of whatever loader, reads
\* NODE_ENV from the environment as it then stands and populates from the
\* environment as it stands at population.
C21_EnvFileInjectionPersists ==
  [][ /\ ops' = ops => env' = env
      /\ \A c \in Calls :
           /\ (calls[c].pc = "idle" /\ calls'[c].pc # "idle")
                => /\ DOMAIN env \subseteq DOMAIN env'
                   /\ options[calls'[c].loader].envFilePath = Undefined => env' = env
                   /\ calls'[c].nodeEnv =
                        IF NODE_ENV \in DOMAIN env' THEN Str(env'[NODE_ENV]) ELSE Undefined
           /\ (~ HasStep(calls[c], "populate") /\ HasStep(calls'[c], "populate"))
                => /\ calls'[c].seen = env
                   /\ \A k \in DOMAIN env : Get(calls'[c].draft, k) = Policy(env[k]) ]_vars

C21_Witness ==
  /\ calls[1].loader = "A"
  /\ options["A"].envFilePath = Bool(TRUE)
  /\ calls[1].pc = "thrown"
  /\ calls[1].began[NODE_ENV] = <<"l","o","c","a","l">>
  /\ calls[2].loader = "B"
  /\ options["B"].envFilePath = Undefined
  /\ calls[2].config = ""
  /\ calls[2].nodeEnv = Str(<<"l","o","c","a","l">>)
  /\ calls[2].cls = "LocalConfigA"
  /\ HasStep(calls[2], "populate")
  /\ calls[2].seen[TEST_NUM] = <<"7">>
  /\ Get(calls[2].instance, TEST_NUM) = Num(7)

=============================================================================
